---- MODULE Spec2Model ----
(***************************************************************************)
(* Model of resy-reserver (src/resy-reserver/src/main.rs) together with    *)
(* the three remote operations of libresy it drives                        *)
(* (src/libresy/src/lib.rs, src/libresy/src/resy_data.rs).                 *)
(*                                                                         *)
(* The process `main` is cut at its await points: one action per remote    *)
(* request that returns, one per timed wait that elapses.  Options are     *)
(* sequences of length 0 (None) or 1 (Some).  Strings that are compared    *)
(* case-insensitively are sequences of ASCII codes.                        *)
(***************************************************************************)
EXTENDS Integers, Sequences, FiniteSets, TLC

\* ------------------------------------------------------------------ bounds
MaxRetry == 2          \* largest retry_count explored
MaxSlots == 2          \* longest slot list the remote returns
MaxTime == 2           \* times of day are 0..MaxTime
MaxToken == 2          \* book tokens are 1..MaxToken
MaxPayments == 2       \* longest payment-method list

U8 == 256              \* retry_count and i are u8

Times == 0..MaxTime
Tokens == 1..MaxToken
PaymentIds == 1..2

\* "I" and "O": the table types the remote reports
SlotTypes == {<<73>>, <<79>>}
\* the --table-type argument: absent, "i", "O"
TableTypeArgs == {<<>>, <<(<<105>>)>>, <<(<<79>>)>>}

SeqsUpTo(S, n) == UNION {[1..k -> S] : k \in 0..n}

\* ReservationSlot: its time of day, config.slot_type, config.token.  The
\* remote gives every slot of a list a token of its own, here its position.
ReservationSlot == [time : Times, slot_type : SlotTypes, token : 1..MaxSlots]

SlotLists ==
    {l \in SeqsUpTo(ReservationSlot, MaxSlots) : \A k \in 1..Len(l) : l[k].token = k}

\* ReservationDetails: book_token.value and user.payment_methods (ids)
ReservationDetails ==
    [book_token : Tokens, payment_methods : SeqsUpTo(PaymentIds, MaxPayments)]

\* ReservationTimeMode
ReservationTimeMode == {"Exact", "Earlier", "Later"}

\* Commands
Commands == {"Automatic", "OneShot"}

\* The errors attempt_reservation returns: the two anyhow! messages and an
\* error propagated from the HTTP client.
ErrNoReservations == "No reservations exist"
ErrNoMatch == "No reservation was found"
ErrRemote == "remote error"

VARIABLES
    command,              \* cli.command
    retry_count,          \* Automatic.retry_count
    time,                 \* requested_time
    table_type,           \* cli.table_type
    time_mode,            \* cli.reservation_time_mode
    pc,                   \* position of main
    i,                    \* loop variable of the retry loop
    response,             \* the answer to the pending request, once it is in
    matching_reservation, \* attempt_reservation: matching_reservation
    reservation_details,  \* attempt_reservation: reservation_details (Option)
    reservation_attempt,  \* main: the Result of the last attempt
    calls,                \* remote requests issued by the current attempt
    attempts,             \* number of attempt_reservation invocations
    sleeps,               \* number of retry_delay sleeps
    result,               \* what main returned
    sub_operands,         \* values of retry_count that `retry_count - 1` was
                          \* evaluated with
    reservations,         \* get_matching_reservation: the slice it is given
    selected,             \* get_matching_reservation: what it returned
    start_time,           \* main: the parsed start_time
    clock,                \* the wall clock, in ms since midnight of day 0
    now_date,             \* main: now_date, as a day number (Option)
    now,                  \* main: now, in ms since midnight (Option)
    now_read,             \* the wall clock when now was read
    delay,                \* main: delay, in ms (Option)
    slept                 \* seconds handed to the initial sleep (Option)

\* the selector on its own, and the wait for start_time
aside == <<reservations, selected, start_time, clock, now_date, now, now_read,
           delay, slept>>

vars == <<command, retry_count, time, table_type, time_mode, pc, i,
          response, matching_reservation, reservation_details,
          reservation_attempt, calls, attempts, sleeps, result, sub_operands,
          aside>>

cli == <<command, retry_count, time, table_type, time_mode>>
locals == <<matching_reservation, reservation_details>>

\* ------------------------------------------------------- pure functions

\* u8::to_ascii_lowercase
to_ascii_lowercase(c) == IF c >= 65 /\ c <= 90 THEN c + 32 ELSE c

\* str::eq_ignore_ascii_case
eq_ignore_ascii_case(a, b) ==
    /\ Len(a) = Len(b)
    /\ \A k \in 1..Len(a) : to_ascii_lowercase(a[k]) = to_ascii_lowercase(b[k])

\* table_type_matches comparing the two strings as they are
table_type_matches_CaseSensitive(slot_type, requested_table_type) ==
    IF requested_table_type = <<>>
    THEN TRUE
    ELSE requested_table_type[1] = slot_type

table_type_matches(slot_type, requested_table_type) ==
    IF requested_table_type = <<>>
    THEN TRUE
    ELSE eq_ignore_ascii_case(requested_table_type[1], slot_type)

\* Iterator::find on a slice: the first element satisfying P
IterFind(s, P(_)) ==
    IF \E k \in 1..Len(s) : P(s[k])
    THEN <<s[CHOOSE k \in 1..Len(s) :
                 P(s[k]) /\ \A j \in 1..(k - 1) : ~P(s[j])]>>
    ELSE <<>>

\* Iterator::filter(..).last(): the last element satisfying P
IterFilterLast(s, P(_)) ==
    IF \E k \in 1..Len(s) : P(s[k])
    THEN <<s[CHOOSE k \in 1..Len(s) :
                 P(s[k]) /\ \A j \in (k + 1)..Len(s) : ~P(s[j])]>>
    ELSE <<>>

\* Exact taking the last slot at the requested time instead of the first
get_matching_reservation_ExactLast(rs, t, tt, tm) ==
    LET exact(r) == r.time = t /\ table_type_matches(r.slot_type, tt)
        earlier(r) == r.time <= t /\ table_type_matches(r.slot_type, tt)
        later(r) == r.time >= t /\ table_type_matches(r.slot_type, tt)
    IN  CASE tm = "Exact" -> IterFilterLast(rs, exact)
          [] tm = "Earlier" -> IterFilterLast(rs, earlier)
          [] tm = "Later" -> IterFind(rs, later)

\* Earlier taking the first slot not after the requested time
get_matching_reservation_EarlierFirst(rs, t, tt, tm) ==
    LET exact(r) == r.time = t /\ table_type_matches(r.slot_type, tt)
        earlier(r) == r.time <= t /\ table_type_matches(r.slot_type, tt)
        later(r) == r.time >= t /\ table_type_matches(r.slot_type, tt)
    IN  CASE tm = "Exact" -> IterFind(rs, exact)
          [] tm = "Earlier" -> IterFind(rs, earlier)
          [] tm = "Later" -> IterFind(rs, later)

\* Later taking the last slot not before the requested time
get_matching_reservation_LaterLast(rs, t, tt, tm) ==
    LET exact(r) == r.time = t /\ table_type_matches(r.slot_type, tt)
        earlier(r) == r.time <= t /\ table_type_matches(r.slot_type, tt)
        later(r) == r.time >= t /\ table_type_matches(r.slot_type, tt)
    IN  CASE tm = "Exact" -> IterFind(rs, exact)
          [] tm = "Earlier" -> IterFilterLast(rs, earlier)
          [] tm = "Later" -> IterFilterLast(rs, later)

\* Earlier taking the latest of the slots not after the requested time
\* (max_by_key: the last of them when several are equally late)
get_matching_reservation_EarlierMaxByTime(rs, t, tt, tm) ==
    LET exact(r) == r.time = t /\ table_type_matches(r.slot_type, tt)
        earlier(r) == r.time <= t /\ table_type_matches(r.slot_type, tt)
        later(r) == r.time >= t /\ table_type_matches(r.slot_type, tt)
        latest(r) == earlier(r) /\ \A k \in 1..Len(rs) :
                                      earlier(rs[k]) => rs[k].time <= r.time
    IN  CASE tm = "Exact" -> IterFind(rs, exact)
          [] tm = "Earlier" -> IterFilterLast(rs, latest)
          [] tm = "Later" -> IterFind(rs, later)

get_matching_reservation(rs, t, tt, tm) ==
    LET exact(r) == r.time = t /\ table_type_matches(r.slot_type, tt)
        earlier(r) == r.time <= t /\ table_type_matches(r.slot_type, tt)
        later(r) == r.time >= t /\ table_type_matches(r.slot_type, tt)
    IN  CASE tm = "Exact" -> IterFind(rs, exact)
          [] tm = "Earlier" -> IterFilterLast(rs, earlier)
          [] tm = "Later" -> IterFind(rs, later)

\* get_payment_id falling back to a default id when no method is on file
get_payment_id_or_default(d) ==
    IF d.payment_methods = <<>> THEN <<0>> ELSE <<Head(d.payment_methods)>>

\* ReservationDetails::get_payment_id
get_payment_id(d) ==
    IF d.payment_methods = <<>> THEN <<>> ELSE <<Head(d.payment_methods)>>

\* u8 subtraction as a release build computes it
U8Sub(a, b) == (a - b) % U8

\* --------------------------------------------------------- remote requests
\* A request is <<operation, first argument, second argument, state>>; the
\* state is "pending" until the response arrives.
Request(op, a, b) == <<op, a, b, "pending">>

Returned(cs, how) ==
    [cs EXCEPT ![Len(cs)] = <<cs[Len(cs)][1], cs[Len(cs)][2], cs[Len(cs)][3], how>>]

\* a details request that always names the first token
ReservationDetailsRequest_FixedToken(slot) == 1

\* ReservationDetailsRequest::new: config_id is the slot's token
ReservationDetailsRequest(slot) == slot.token

\* book_restaurant's form: book_token and struct_payment_method {"id": ..}
BookRequest(d, payment) == Request("book_restaurant", d.book_token, payment)

\* SelectStep without the is_empty test
SelectStep_NoEmptyTest(rs, t, tt, tm) ==
    LET m == get_matching_reservation(rs, t, tt, tm)
    IN  IF m = <<>>
        THEN [err |-> <<ErrNoMatch>>, slot |-> <<>>]
        ELSE [err |-> <<>>, slot |-> m]

\* SelectStep going on with the first slot when none matches
SelectStep_FirstSlotFallback(rs, t, tt, tm) ==
    IF rs = <<>>
    THEN [err |-> <<ErrNoReservations>>, slot |-> <<>>]
    ELSE LET m == get_matching_reservation(rs, t, tt, tm)
         IN  IF m = <<>>
             THEN [err |-> <<>>, slot |-> <<Head(rs)>>]
             ELSE [err |-> <<>>, slot |-> m]

\* attempt_reservation between the slot list and the details request:
\* the error it returns, or the slot it goes on with
SelectStep(rs, t, tt, tm) ==
    IF rs = <<>>
    THEN [err |-> <<ErrNoReservations>>, slot |-> <<>>]
    ELSE LET m == get_matching_reservation(rs, t, tt, tm)
         IN  IF m = <<>>
             THEN [err |-> <<ErrNoMatch>>, slot |-> <<>>]
             ELSE [err |-> <<>>, slot |-> m]

\* What the remote answers.  get_reservations: the request fails, the body
\* is not the expected JSON, or a slot list arrives.
FindResponses ==
    {[kind |-> "error", slots |-> <<>>], [kind |-> "malformed", slots |-> <<>>]}
        \cup [kind : {"slots"}, slots : SlotLists]

\* get_reservation_details: the request or the decoding fails (<<>>), or
\* details arrive
DetailsResponses == {<<>>} \cup {<<d>> : d \in ReservationDetails}

\* book_restaurant: no response at all, or a response with a success status
\* (booking made), or a response with an error status (booking refused)
BookResponses == {"error", "accepted", "refused"}

\* ---------------------------------------------------------------- Init
Init ==
    /\ command \in Commands
    /\ retry_count \in 0..MaxRetry
    /\ (command = "OneShot" => retry_count = 0)
    /\ time \in Times
    /\ table_type \in TableTypeArgs
    /\ time_mode \in ReservationTimeMode
    /\ pc = IF command = "Automatic" THEN "loop" ELSE "oneshot"
    /\ i = 0
    /\ response = <<>>
    /\ matching_reservation = <<>>
    /\ reservation_details = <<>>
    /\ reservation_attempt = "none"
    /\ calls = <<>>
    /\ attempts = 0
    /\ sleeps = 0
    /\ result = "running"
    /\ sub_operands = {}
    /\ reservations = <<>>
    /\ selected = <<>>
    /\ start_time = 0
    /\ clock = 0
    /\ now_date = <<>>
    /\ now = <<>>
    /\ now_read = 0
    /\ delay = <<>>
    /\ slept = <<>>

\* -------------------------------------------------------------- remote

\* the remote service answers the pending request
RemoteResponds ==
    /\ response = <<>>
    /\ \/ /\ pc = "get_reservations"
          /\ \E r \in FindResponses : response' = <<r>>
       \/ /\ pc = "get_reservation_details"
          /\ \E r \in DetailsResponses : response' = <<r>>
       \/ /\ pc = "book_restaurant"
          /\ \E r \in BookResponses : response' = <<r>>
    /\ UNCHANGED <<cli, pc, i, locals, reservation_attempt, calls, attempts,
                   sleeps, result, sub_operands, aside>>

\* ------------------------------------------------------------- main

\* attempt_reservation is entered: its first statement sends get_reservations
CallAttempt ==
    /\ response' = <<>>
    /\ matching_reservation' = <<>>
    /\ reservation_details' = <<>>
    /\ reservation_attempt' = "none"
    /\ calls' = <<Request("get_reservations", 0, 0)>>
    /\ attempts' = attempts + 1

\* the range 0..=n
RangeHasNext_Inclusive(k, n) == k <= n

\* the range 0..n still has the element k
RangeHasNext(k, n) == k < n

\* for i in 0..*retry_count: next iteration
LoopIterate ==
    /\ pc = "loop"
    /\ RangeHasNext(i, retry_count)
    /\ CallAttempt
    /\ pc' = "get_reservations"
    /\ UNCHANGED <<cli, i, sleeps, result, sub_operands, aside>>

\* for i in 0..*retry_count: range exhausted, main falls through to Ok(())
LoopExit ==
    /\ pc = "loop"
    /\ ~RangeHasNext(i, retry_count)
    /\ pc' = "returned"
    /\ result' = "Ok"
    /\ UNCHANGED <<cli, i, response, locals, reservation_attempt, calls,
                   attempts, sleeps, sub_operands, aside>>

\* Commands::OneShot
OneShot ==
    /\ pc = "oneshot"
    /\ CallAttempt
    /\ pc' = "get_reservations"
    /\ UNCHANGED <<cli, i, sleeps, result, sub_operands, aside>>

\* attempt_reservation returns r to main
AttemptReturns(r) ==
    /\ reservation_attempt' = r
    /\ IF command = "OneShot"
       THEN /\ pc' = "returned"
            /\ result' = r
            /\ UNCHANGED <<i, sub_operands>>
       ELSE IF r = "Ok"
       THEN /\ pc' = "returned"
            /\ result' = "Ok"
            /\ UNCHANGED <<i, sub_operands>>
       ELSE /\ sub_operands' = sub_operands \cup {retry_count}
            /\ IF i < U8Sub(retry_count, 1)
               THEN /\ pc' = "sleep"
                    /\ UNCHANGED <<i, result>>
               ELSE /\ pc' = "loop"
                    /\ i' = i + 1
                    /\ UNCHANGED result

\* an unwrap() on None or Err: the process aborts
Panics ==
    /\ pc' = "panicked"
    /\ result' = "panic"
    /\ UNCHANGED <<i, reservation_attempt, sub_operands>>

\* get_reservations returns; attempt_reservation runs up to its next await
GetReservationsReturns ==
    /\ pc = "get_reservations"
    /\ response # <<>>
    /\ response' = <<>>
    /\ LET resp == response[1] IN
         CASE resp.kind = "error" ->
                /\ calls' = Returned(calls, "err")
                /\ AttemptReturns(ErrRemote)
                /\ UNCHANGED locals
           [] resp.kind = "malformed" ->
                /\ calls' = Returned(calls, "panic")
                /\ Panics
                /\ UNCHANGED locals
           [] resp.kind = "slots" ->
                LET step == SelectStep(resp.slots, time, table_type, time_mode)
                IN  /\ matching_reservation' = step.slot
                    /\ UNCHANGED reservation_details
                    /\ IF step.err # <<>>
                       THEN /\ calls' = Returned(calls, "ok")
                            /\ AttemptReturns(step.err[1])
                       ELSE /\ calls' = Append(Returned(calls, "ok"),
                                   Request("get_reservation_details",
                                       ReservationDetailsRequest(step.slot[1]), 0))
                            /\ pc' = "get_reservation_details"
                            /\ UNCHANGED <<i, reservation_attempt, result,
                                           sub_operands>>
    /\ UNCHANGED <<cli, attempts, sleeps, aside>>

\* get_reservation_details returns; attempt_reservation runs up to its next
\* await
GetReservationDetailsReturns ==
    /\ pc = "get_reservation_details"
    /\ response # <<>>
    /\ response' = <<>>
    /\ LET resp == response[1] IN
         IF resp = <<>>
         THEN /\ calls' = Returned(calls, "err")
              /\ AttemptReturns(ErrRemote)
              /\ UNCHANGED locals
         ELSE /\ reservation_details' = resp
              /\ UNCHANGED matching_reservation
              /\ IF get_payment_id(resp[1]) = <<>>
                 THEN /\ calls' = Returned(calls, "ok")
                      /\ Panics
                 ELSE /\ calls' = Append(Returned(calls, "ok"),
                                      BookRequest(resp[1], get_payment_id(resp[1])[1]))
                      /\ pc' = "book_restaurant"
                      /\ UNCHANGED <<i, reservation_attempt, result,
                                     sub_operands>>
    /\ UNCHANGED <<cli, attempts, sleeps, aside>>

\* book_restaurant: Ok(_) => Ok(()), Err(e) => Err(e.into())
book_restaurant(resp) == IF resp = "error" THEN ErrRemote ELSE "Ok"

\* book_restaurant returns, and attempt_reservation with it
BookRestaurantReturns ==
    /\ pc = "book_restaurant"
    /\ response # <<>>
    /\ response' = <<>>
    /\ calls' = Returned(calls, response[1])
    /\ AttemptReturns(book_restaurant(response[1]))
    /\ UNCHANGED <<cli, locals, attempts, sleeps, aside>>

\* the retry_delay sleep elapses
Sleep ==
    /\ pc = "sleep"
    /\ sleeps' = sleeps + 1
    /\ i' = i + 1
    /\ pc' = "loop"
    /\ UNCHANGED <<cli, response, locals, reservation_attempt, calls, attempts,
                   result, sub_operands, aside>>

Next ==
    \/ RemoteResponds
    \/ LoopIterate
    \/ LoopExit
    \/ OneShot
    \/ GetReservationsReturns
    \/ GetReservationDetailsReturns
    \/ BookRestaurantReturns
    \/ Sleep

Spec == Init /\ [][Next]_vars

TypeOK ==
    /\ pc \in {"loop", "oneshot", "get_reservations", "get_reservation_details",
               "book_restaurant", "sleep", "returned", "panicked"}
    /\ i \in 0..MaxRetry
    /\ attempts \in 0..(MaxRetry + 1)
    /\ sleeps \in 0..MaxRetry
    /\ Len(response) <= 1
    /\ Len(matching_reservation) <= 1
    /\ Len(reservation_details) <= 1

\* ------------------------------------------- the selector on its own
MaxSelLen == 3         \* longest slice handed to get_matching_reservation

\* table types "I", "i", "@" and --table-type absent, "i", "`"
SelSlotTypes == {<<73>>, <<105>>, <<64>>}
SelTableTypeArgs == {<<>>, <<(<<105>>)>>, <<(<<96>>)>>}

\* times of day before, at and after a requested time
SelTimes == {0, 1, 2}

\* the slices of up to MaxSelLen slots, each slot's token its position
SelSlotLists ==
    UNION {{[k \in 1..n |-> [time |-> f[k][1], slot_type |-> f[k][2], token |-> k]] :
                f \in [1..n -> SelTimes \X SelSlotTypes]} : n \in 0..MaxSelLen}

\* main is not running
MainIdle ==
    /\ command = "Automatic"
    /\ retry_count = 0
    /\ i = 0
    /\ response = <<>>
    /\ matching_reservation = <<>>
    /\ reservation_details = <<>>
    /\ reservation_attempt = "none"
    /\ calls = <<>>
    /\ attempts = 0
    /\ sleeps = 0
    /\ result = "running"
    /\ sub_operands = {}

SelInit ==
    /\ MainIdle
    /\ pc = "select"
    /\ reservations \in SelSlotLists
    /\ time \in SelTimes
    /\ table_type \in SelTableTypeArgs
    /\ time_mode \in ReservationTimeMode
    /\ selected = <<>>
    /\ start_time = 0
    /\ clock = 0
    /\ now_date = <<>>
    /\ now = <<>>
    /\ now_read = 0
    /\ delay = <<>>
    /\ slept = <<>>

\* get_matching_reservation is called and returns
SelApply ==
    /\ pc = "select"
    /\ selected' = get_matching_reservation(reservations, time, table_type, time_mode)
    /\ pc' = "selected"
    /\ UNCHANGED <<cli, i, response, locals, reservation_attempt, calls, attempts,
                   sleeps, result, sub_operands, reservations, start_time,
                   clock, now_date, now, now_read, delay, slept>>

SelNext == SelApply

SelSpec == SelInit /\ [][SelNext]_vars

\* every remote call and every sleep returns, and main keeps running
FairSpec == Spec /\ WF_vars(Next)

\* ------------------------------------------- the wait for start_time
MsPerSecond == 1000
MsPerMinute == 60000
MsPerDay == 86400000

\* NaiveTime::parse_from_str(.., "%H:%M"): a whole minute of the day
HM(h, m) == (h * 60 + m) * MsPerMinute

\* --start-time: the default "00:00", and "11:59"
StartTimes == {HM(0, 0), HM(11, 59)}

\* the wall clock when main reaches line 244, on day 0
Clocks == {HM(11, 0), HM(11, 59) - 500, HM(11, 59), HM(12, 0), MsPerDay - 100}

\* how far the clock moves between two statements
Advances == {0, 100, 1500}

\* TimeDelta::num_seconds: whole seconds, rounded towards zero
num_seconds(d) ==
    IF d >= 0 THEN d \div MsPerSecond ELSE -((-d) \div MsPerSecond)

\* the test `start_time <= now`
RollsOver_OrEqual(st, n) == st <= n

\* the test `start_time < now` of line 248
RollsOver(st, n) == st < n

\* the sleep without the test of line 260
SleepSeconds_NoTest(d) == <<num_seconds(d)>>

\* lines 260-262: the seconds handed to sleep, if it is called
SleepSeconds(d) == IF num_seconds(d) > 0 THEN <<num_seconds(d)>> ELSE <<>>

SchedInit ==
    /\ MainIdle
    /\ pc = "now_date"
    /\ time = 0
    /\ table_type = <<>>
    /\ time_mode = "Exact"
    /\ reservations = <<>>
    /\ selected = <<>>
    /\ start_time \in StartTimes
    /\ clock \in Clocks
    /\ now_date = <<>>
    /\ now = <<>>
    /\ now_read = 0
    /\ delay = <<>>
    /\ slept = <<>>

SchedFrame ==
    UNCHANGED <<cli, i, response, locals, reservation_attempt, calls, attempts,
                sleeps, result, sub_operands, reservations, selected, start_time>>

\* line 244: let now_date = Local::now().date_naive()
ReadNowDate ==
    /\ pc = "now_date"
    /\ \E a \in Advances : clock' = clock + a
    /\ now_date' = <<clock' \div MsPerDay>>
    /\ pc' = "now"
    /\ UNCHANGED <<now, now_read, delay, slept>>
    /\ SchedFrame

\* line 245: let now = Local::now().time()
ReadNow ==
    /\ pc = "now"
    /\ \E a \in Advances : clock' = clock + a
    /\ now' = <<clock' % MsPerDay>>
    /\ now_read' = clock'
    /\ pc' = "delay"
    /\ UNCHANGED <<now_date, delay, slept>>
    /\ SchedFrame

\* lines 246-258: let delay = if start_time < now { .. } else { .. }
ComputeDelay ==
    /\ pc = "delay"
    /\ IF RollsOver(start_time, now[1])
       THEN /\ \E a \in Advances : clock' = clock + a
            /\ delay' = <<(now_date[1] + 1) * MsPerDay + start_time - clock'>>
       ELSE /\ clock' = clock
            /\ delay' = <<start_time - now[1]>>
    /\ pc' = "wait"
    /\ UNCHANGED <<now_date, now, now_read, slept>>
    /\ SchedFrame

\* lines 259-262: the sleep is started, or skipped
StartWait ==
    /\ pc = "wait"
    /\ \E a \in Advances : clock' = clock + a
    /\ slept' = SleepSeconds(delay[1])
    /\ pc' = IF slept' # <<>> THEN "initial_sleep" ELSE "loop"
    /\ UNCHANGED <<now_date, now, now_read, delay>>
    /\ SchedFrame

\* the sleep returns, no sooner than asked
InitialSleepElapses ==
    /\ pc = "initial_sleep"
    /\ \E a \in Advances : clock' = clock + slept[1] * MsPerSecond + a
    /\ pc' = "loop"
    /\ UNCHANGED <<now_date, now, now_read, delay, slept>>
    /\ SchedFrame

SchedNext ==
    \/ ReadNowDate
    \/ ReadNow
    \/ ComputeDelay
    \/ StartWait
    \/ InitialSleepElapses

SchedSpec == SchedInit /\ [][SchedNext]_vars

\* ------------------------------------------------------------ properties

Automatic == command = "Automatic"
Terminated == pc \in {"returned", "panicked"}
InAttempt == pc \in {"get_reservations", "get_reservation_details", "book_restaurant"}
AttemptOver == attempts >= 1 /\ ~InAttempt

\* the error an attempt would return for "no payment method on file"
ErrNoPayment == "No payment method"

CalledOp(op) == \E k \in 1..Len(calls) : calls[k][1] = op

\* C1: in automatic mode with retry_count >= 1 the attempt is invoked exactly
\* k times when the k-th attempt is the first success (k <= retry_count) and
\* exactly retry_count times when no attempt succeeds; a success ends the run
\* at once, so no attempt starts after it.
C1_AttemptCount ==
    (Automatic /\ retry_count >= 1) =>
        /\ attempts <= retry_count
        /\ (reservation_attempt = "Ok" => pc = "returned" /\ attempts = i + 1)
        /\ (Terminated /\ reservation_attempt # "Ok" => attempts = retry_count)

\* C2: when an attempt ends without success the retry_delay sleep follows if
\* and only if an attempt remains; an attempt that succeeds is followed by no
\* sleep, so there is one sleep between two consecutive attempts and none
\* after the last.
C2_SleepIffAttemptsRemain ==
    [][(Automatic /\ InAttempt /\ ~InAttempt') =>
          /\ (reservation_attempt' # "Ok" =>
                 ((pc' = "sleep") <=> (attempts < retry_count)))
          /\ (reservation_attempt' = "Ok" => pc' # "sleep")]_vars

\* C3: a run whose attempts all ended without success ends with a failure
\* carrying the last attempt's error, and a run ends with Ok only if an
\* attempt returned Ok.
C3_ExhaustionIsFailure ==
    (pc = "returned" /\ attempts >= 1) =>
        /\ (reservation_attempt # "Ok" => result = reservation_attempt)
        /\ (result = "Ok" => reservation_attempt = "Ok")

\* C4: when the details of the chosen slot carry no payment method, the
\* attempt returns the no-payment-method error to its caller and
\* book_restaurant is not called.
C4_NoPaymentMethodOutcome ==
    (reservation_details # <<>> /\ reservation_details[1].payment_methods = <<>>) =>
        /\ pc # "panicked"
        /\ reservation_attempt = ErrNoPayment
        /\ ~CalledOp("book_restaurant")

\* C5: an attempt that ends without success never aborts the retry loop:
\* while attempts remain the run is sleeping or back at the loop head, from
\* where the next attempt starts.
C5_FailureKeepsLooping ==
    (Automatic /\ AttemptOver /\ reservation_attempt # "Ok" /\ attempts < retry_count) =>
        pc \in {"sleep", "loop"}

\* C6: book_restaurant is called in an attempt only if in that attempt the
\* selector returned a slot and the details fetched for that slot carry at
\* least one payment method.
C6_BookOnlyWithSlotAndPayment ==
    CalledOp("book_restaurant") =>
        /\ matching_reservation # <<>>
        /\ calls[2][1] = "get_reservation_details"
        /\ calls[2][2] = matching_reservation[1].token
        /\ calls[2][4] = "ok"
        /\ reservation_details # <<>>
        /\ Len(reservation_details[1].payment_methods) >= 1

C6_Witness ==
    /\ CalledOp("book_restaurant")
    /\ matching_reservation[1].token = 2
    /\ Len(reservation_details[1].payment_methods) = 1

\* C7: the attempt's result is Ok only when the remote accepted the booking;
\* a submit request that got no response or was refused makes the attempt
\* return the remote error.
C7_SuccessOnlyWhenAccepted ==
    /\ (reservation_attempt = "Ok" =>
            Len(calls) = 3 /\ calls[3][4] = "accepted")
    /\ (Len(calls) = 3 /\ calls[3][4] \in {"error", "refused"} =>
            reservation_attempt = ErrRemote)

\* the slot list that get_reservations is about to hand to the attempt
SlotsArrived ==
    /\ pc = "get_reservations"
    /\ response # <<>>
    /\ response[1].kind = "slots"

\* C8: when get_reservations returns an empty list the attempt returns the
\* no-reservations error, no slot is selected and neither
\* get_reservation_details nor book_restaurant is called.
C8_EmptySlotList ==
    /\ [][(SlotsArrived /\ response[1].slots = <<>>) =>
             /\ reservation_attempt' = ErrNoReservations
             /\ matching_reservation' = <<>>
             /\ Len(calls') = 1]_vars
    /\ [](reservation_attempt = ErrNoReservations =>
             /\ matching_reservation = <<>>
             /\ ~CalledOp("get_reservation_details")
             /\ ~CalledOp("book_restaurant"))

C8_Witness ==
    /\ reservation_attempt = ErrNoReservations
    /\ calls = <<(<<"get_reservations", 0, 0, "ok">>)>>

\* C9: when get_reservations returns a non-empty list in which the selector
\* finds no slot, the attempt returns the no-match error, which differs from
\* the no-reservations error, and neither get_reservation_details nor
\* book_restaurant is called.
C9_NoMatchingSlot ==
    /\ [][(/\ SlotsArrived
           /\ response[1].slots # <<>>
           /\ get_matching_reservation(response[1].slots, time, table_type,
                                       time_mode) = <<>>) =>
             /\ reservation_attempt' = ErrNoMatch
             /\ reservation_attempt' # ErrNoReservations
             /\ Len(calls') = 1]_vars
    /\ [](reservation_attempt = ErrNoMatch =>
             /\ ~CalledOp("get_reservation_details")
             /\ ~CalledOp("book_restaurant"))

C9_Witness ==
    /\ reservation_attempt = ErrNoMatch
    /\ calls = <<(<<"get_reservations", 0, 0, "ok">>)>>

\* C10: the requests of one attempt are get_reservations, then
\* get_reservation_details, then book_restaurant, each sent only after the
\* one before it returned successfully; the details request names the token
\* of the slot selected in this attempt, the book request the book token of
\* this attempt's details; a failed details request ends the attempt with the
\* remote error and without a book request.
C10_CallOrder ==
    /\ [](/\ Len(calls) <= 3
          /\ \A k \in 1..Len(calls) :
                /\ calls[k][1] = <<"get_reservations", "get_reservation_details",
                                   "book_restaurant">>[k]
                /\ (k < Len(calls) => calls[k][4] = "ok")
          /\ (Len(calls) >= 2 => calls[2][2] = matching_reservation[1].token)
          /\ (Len(calls) >= 3 => calls[3][2] = reservation_details[1].book_token))
    /\ [][(SlotsArrived /\ Len(calls') = 2) =>
             /\ matching_reservation' =
                    get_matching_reservation(response[1].slots, time, table_type,
                                             time_mode)
             /\ calls'[2][2] = matching_reservation'[1].token]_vars
    /\ [][(pc = "get_reservation_details" /\ response = <<(<<>>)>>) =>
             /\ reservation_attempt' = ErrRemote
             /\ Len(calls') = 2
             /\ calls'[2][4] = "err"]_vars

C10_Witness ==
    /\ Len(calls) = 3
    /\ calls[3][4] = "accepted"
    /\ calls[2][2] = 2
    /\ calls[3][2] = MaxToken

\* ---------------------------------------------- properties of the selector

ToUpper(c) == IF c >= 97 /\ c <= 122 THEN c - 32 ELSE c

\* two strings are equal up to the case of their ASCII letters
SameIgnoringCase(a, b) ==
    /\ Len(a) = Len(b)
    /\ \A k \in 1..Len(a) : ToUpper(a[k]) = ToUpper(b[k])

\* the slot passes the optional table-type filter f
PassesFilter(r, f) == f = <<>> \/ SameIgnoringCase(f[1], r.slot_type)

Min(S) == CHOOSE x \in S : \A y \in S : x <= y
Max(S) == CHOOSE x \in S : \A y \in S : x >= y

\* positions of the slots that pass the filter and are at / not after / not
\* before the requested time
AtIdx ==
    {k \in 1..Len(reservations) :
        reservations[k].time = time /\ PassesFilter(reservations[k], table_type)}
NotAfterIdx ==
    {k \in 1..Len(reservations) :
        reservations[k].time <= time /\ PassesFilter(reservations[k], table_type)}
NotBeforeIdx ==
    {k \in 1..Len(reservations) :
        reservations[k].time >= time /\ PassesFilter(reservations[k], table_type)}

SortedByTime ==
    \A j, k \in 1..Len(reservations) :
        j < k => reservations[j].time <= reservations[k].time

\* C11: under Exact the selector returns a slot iff some slot is at the
\* requested time and passes the filter; the slot returned is the first such
\* slot of the list (so a member of it), and at most one slot is returned.
C11_ExactFirstMatch ==
    (pc = "selected" /\ time_mode = "Exact") =>
        /\ Len(selected) <= 1
        /\ (selected # <<>> <=> AtIdx # {})
        /\ (AtIdx # {} => selected[1] = reservations[Min(AtIdx)])

C11_Witness ==
    /\ pc = "selected"
    /\ time_mode = "Exact"
    /\ table_type # <<>>
    /\ Cardinality(AtIdx) = 2
    /\ Min(AtIdx) = 2
    /\ selected = <<reservations[2]>>

TimesAt(idx) == {reservations[k].time : k \in idx}

\* C12: under Earlier, on a list sorted ascending by time, the selector
\* returns a slot passing the filter whose time is the greatest one not after
\* the requested time (the requested time itself when such a slot exists),
\* and returns none iff no slot passing the filter is at or before it.
C12_EarlierGreatestNotAfter ==
    (pc = "selected" /\ time_mode = "Earlier" /\ SortedByTime) =>
        /\ (selected = <<>> <=> NotAfterIdx = {})
        /\ (NotAfterIdx # {} =>
              /\ \E k \in NotAfterIdx : selected = <<reservations[k]>>
              /\ selected[1].time = Max(TimesAt(NotAfterIdx)))
        /\ (AtIdx # {} => selected[1].time = time)

C12_Witness ==
    /\ pc = "selected"
    /\ time_mode = "Earlier"
    /\ SortedByTime
    /\ table_type # <<>>
    /\ Len(reservations) = 3
    /\ NotAfterIdx = {1, 2}
    /\ reservations[1].time < reservations[2].time
    /\ selected = <<reservations[2]>>

\* C13: under Later, on a list sorted ascending by time, the selector returns
\* a slot passing the filter whose time is the least one not before the
\* requested time (the requested time itself when such a slot exists), and
\* returns none iff no slot passing the filter is at or after it.
C13_LaterLeastNotBefore ==
    (pc = "selected" /\ time_mode = "Later" /\ SortedByTime) =>
        /\ (selected = <<>> <=> NotBeforeIdx = {})
        /\ (NotBeforeIdx # {} =>
              /\ \E k \in NotBeforeIdx : selected = <<reservations[k]>>
              /\ selected[1].time = Min(TimesAt(NotBeforeIdx)))
        /\ (AtIdx # {} => selected[1].time = time)

C13_Witness ==
    /\ pc = "selected"
    /\ time_mode = "Later"
    /\ SortedByTime
    /\ table_type # <<>>
    /\ Len(reservations) = 3
    /\ NotBeforeIdx = {2, 3}
    /\ reservations[2].time < reservations[3].time
    /\ selected = <<reservations[2]>>

\* the list with the slots failing the filter removed
FilterByType(rs, f) ==
    SelectSeq(rs, LAMBDA r : table_type_matches(r.slot_type, f))

\* the filter applied to the list, then the time policy
FilterThenMatch ==
    get_matching_reservation(FilterByType(reservations, table_type), time, <<>>,
                             time_mode)

\* the time policy on the whole list, then the filter applied to its result
MatchThenFilter ==
    FilterByType(get_matching_reservation(reservations, time, <<>>, time_mode),
                 table_type)

\* the filter compares case-insensitively and an absent filter accepts all
FilterIgnoresCase ==
    \A k \in 1..Len(reservations) :
        table_type_matches(reservations[k].slot_type, table_type)
            <=> PassesFilter(reservations[k], table_type)

\* C14 as claimed: the filter compares case-insensitively and the selector's
\* result is the same whether the filter is applied to the list before the
\* time policy or to the outcome of the time policy.
C14_FilterCommutes ==
    pc = "selected" =>
        /\ FilterIgnoresCase
        /\ selected = FilterThenMatch
        /\ FilterThenMatch = MatchThenFilter

\* C14 amended: the filter compares case-insensitively; the selector's result
\* is that of filtering the list first; filtering after the time policy gives
\* the same slot when the slot chosen by time alone passes the filter and
\* none otherwise.
C14_FilterFirst ==
    pc = "selected" =>
        /\ FilterIgnoresCase
        /\ selected = FilterThenMatch
        /\ (MatchThenFilter # <<>> => MatchThenFilter = selected)
        /\ (MatchThenFilter = <<>> <=>
              \/ get_matching_reservation(reservations, time, <<>>, time_mode) = <<>>
              \/ ~PassesFilter(get_matching_reservation(reservations, time, <<>>,
                                                        time_mode)[1], table_type))

C14_Witness ==
    /\ pc = "selected"
    /\ table_type = <<(<<105>>)>>
    /\ selected # <<>>
    /\ selected[1].slot_type = <<73>>
    /\ MatchThenFilter = <<>>

TomorrowAtStart == (now_date[1] + 1) * MsPerDay + start_time

\* C15 as claimed: the delay is start_time - now when start_time is strictly
\* later than now, and in every other case tomorrow at start_time minus the
\* current date-time; 11:00 -> 11:59 is 59 minutes, 12:00 -> 11:59 is 23 h 59.
C15_DelayAsClaimed ==
    pc = "wait" =>
        /\ delay[1] = IF start_time > now[1]
                      THEN start_time - now[1]
                      ELSE TomorrowAtStart - clock
        /\ (now[1] = HM(11, 0) /\ start_time = HM(11, 59) => delay[1] = HM(0, 59))
        /\ (now[1] = HM(12, 0) /\ start_time = HM(11, 59) /\ clock = HM(12, 0) =>
                delay[1] = HM(23, 59))

\* C15 amended: the delay is start_time - now when start_time is later than
\* or equal to now (zero when equal), and only when start_time is strictly
\* earlier is it tomorrow at start_time minus the current date-time.
C15_Delay ==
    pc = "wait" =>
        /\ delay[1] = IF start_time >= now[1]
                      THEN start_time - now[1]
                      ELSE TomorrowAtStart - clock
        /\ (start_time = now[1] => delay[1] = 0)
        /\ (now[1] = HM(11, 0) /\ start_time = HM(11, 59) => delay[1] = HM(0, 59))
        /\ (now[1] = HM(12, 0) /\ start_time = HM(11, 59) /\ clock = HM(12, 0) =>
                delay[1] = HM(23, 59))

C15_Witness ==
    /\ pc = "wait"
    /\ start_time = HM(11, 59)
    /\ now = <<HM(11, 59)>>
    /\ delay = <<0>>

C15_WitnessRollover ==
    /\ pc = "wait"
    /\ now = <<HM(12, 0)>>
    /\ delay = <<HM(23, 59)>>

\* C16: the initial sleep is never negative: whatever the clock does between
\* the reads of the date, of the time and of the date-time, a delay that is
\* zero or negative leads to no sleep at all.
C16_NoNegativeSleep ==
    /\ (slept # <<>> => slept[1] > 0 /\ delay[1] > 0)
    /\ (pc \in {"initial_sleep", "loop"} /\ delay # <<>> /\ delay[1] <= 0 =>
            slept = <<>> /\ pc = "loop")

C16_Witness ==
    /\ pc = "loop"
    /\ delay # <<>>
    /\ delay[1] < -MsPerSecond
    /\ now_date[1] # now_read \div MsPerDay
    /\ slept = <<>>

\* the next occurrence of start_time as of the moment now was read, a
\* start_time equal to now counting as reached
NextStart ==
    IF start_time >= now[1]
    THEN (now_read \div MsPerDay) * MsPerDay + start_time
    ELSE (now_read \div MsPerDay + 1) * MsPerDay + start_time

\* C19: the retry loop, and with it the first attempt, is never reached
\* before the wall clock has reached the next occurrence of start_time.
C19_NotBeforeStart ==
    (pc = "loop" /\ now # <<>>) => clock >= NextStart

\* --------------------------------------------- properties of the run's end

Done == pc = "returned" /\ reservation_attempt = "Ok"
Exhausted ==
    Terminated /\ reservation_attempt # "Ok" /\ attempts = retry_count

\* C17: when every remote call and every sleep returns, an automatic run
\* eventually reaches Done (an attempt succeeded) or Exhausted (retry_count
\* attempts made), and it never makes more than retry_count attempts.
C17_Terminates ==
    /\ Automatic => <>(Done \/ Exhausted)
    /\ [](Automatic => attempts <= retry_count)

\* C20: with retry_count = 0 there is no attempt, no sleep, and
\* retry_count - 1 is never evaluated; whenever it is evaluated, retry_count
\* is at least 1, so the unsigned subtraction does not wrap.
C20_NoUnderflow ==
    /\ \A v \in sub_operands : v >= 1 /\ U8Sub(v, 1) = v - 1
    /\ (Automatic /\ retry_count = 0) =>
            attempts = 0 /\ sleeps = 0 /\ sub_operands = {}

C20_Witness ==
    /\ Automatic
    /\ retry_count = 0
    /\ pc = "returned"
    /\ attempts = 0
    /\ sub_operands = {}

C20_WitnessEvaluated ==
    /\ Automatic
    /\ retry_count >= 1
    /\ sub_operands = {retry_count}

====
